---- MODULE Spec2Model ----
(***************************************************************************)
(* MoeLayer / MoeModule of colossalai/nn/layer/moe/layers.py.              *)
(*                                                                         *)
(* One expert group of ep_size worker processes; every worker runs         *)
(* MoeLayer.forward on its own shard.  Tensors are modelled as a shape and *)
(* the row-major (contiguous) data, so that reshape / view / permute /     *)
(* matmul act on the layout exactly as the torch calls of the source do.   *)
(* The router, the expert set, the fused kernels and the collectives are   *)
(* collaborators whose code is outside layers.py; they are modelled from   *)
(* the specification of the system.                                        *)
(***************************************************************************)
EXTENDS Integers, Sequences, FiniteSets, TLC

\* ------------------------------------------------------------------ bounds
MaxCalls == 2          \* forward calls made by each worker
MaxTokens == 2         \* N, tokens per worker and call
d_model == 1           \* self.d_model, the hidden dimension D

GroupTokens == {1, 2}          \* N in an expert group of several workers
EpSizes == {1, 2}              \* experts.dist_info.ep_size
LocalExperts == {1, 2}         \* experts.num_local_experts
Capacities == {1, 2}           \* C, the capacity the router works with
Weights == {1, 2}              \* combine weights of a kept token
TokenVals == {0, 1, 2}         \* components of a token vector
CommNames == {"all_to_all", "all_gather", "ring"}
ExpertKinds == {"identity", "double"}

\* ----------------------------------------------------------------- tensors
\* A tensor: shape (a sequence of dimensions) and contiguous row-major data,
\* a function on 0 .. numel-1.

RECURSIVE Prod(_)
Prod(shape) == IF shape = <<>> THEN 1 ELSE Head(shape) * Prod(Tail(shape))

Numel(t) == Prod(t.shape)

RECURSIVE SumTo(_, _)
SumTo(f, n) == IF n = 0 THEN 0 ELSE f[n - 1] + SumTo(f, n - 1)

\* torch.reshape / view of a contiguous tensor: the data are kept in order;
\* one dimension may be -1 and is then inferred from the element count.
ProdKnown(shape) ==
    Prod([i \in 1 .. Len(shape) |-> IF shape[i] = -1 THEN 1 ELSE shape[i]])

ResolveShape(t, shape) ==
    [i \in 1 .. Len(shape) |->
        IF shape[i] = -1 THEN Numel(t) \div ProdKnown(shape) ELSE shape[i]]

ReshapeOK(t, shape) == Prod(ResolveShape(t, shape)) = Numel(t)

reshape(t, shape) == [shape |-> ResolveShape(t, shape), data |-> t.data]

\* x.permute(1, 2, 0) of a 3-d tensor (A, B, C): the result is (B, C, A)
permute120(t) ==
    LET A == t.shape[1]
        B == t.shape[2]
        C == t.shape[3]
    IN  [shape |-> <<B, C, A>>,
         data |-> [i \in 0 .. (A * B * C - 1) |->
                      LET b == i \div (C * A)
                          c == (i \div A) % C
                          a == i % A
                      IN  t.data[(a * B + b) * C + c]]]

\* torch.matmul of x (..., K) with a 2-d y (K, D): the leading dimensions of
\* x are batch dimensions.
matmul(x, y) ==
    LET K == y.shape[1]
        D == y.shape[2]
        lead == SubSeq(x.shape, 1, Len(x.shape) - 1)
    IN  [shape |-> lead \o <<D>>,
         data |-> [i \in 0 .. (Prod(lead) * D - 1) |->
                      SumTo([k \in 0 .. (K - 1) |->
                                x.data[(i \div D) * K + k] * y.data[k * D + (i % D)]],
                            K)]]

\* mask.type_as(inputs): a boolean mask becomes a tensor of 0 and 1
type_as(mask) ==
    [shape |-> mask.shape,
     data |-> [i \in DOMAIN mask.data |-> IF mask.data[i] THEN 1 ELSE 0]]

\* -------------------------------------------------- collaborators (external)
\* The collectives of _operation.py on the buffers bufs[s] the workers s of
\* the group passed in; r is the worker the result is for, ep the group size.

\* all-to-all: same shape; the first dimension is cut in ep chunks and chunk
\* s of the result is chunk r of worker s's buffer.
AllToAll(bufs, r, ep) ==
    LET n == Numel(bufs[r])
        chunk == n \div ep
    IN  [shape |-> bufs[r].shape,
         data |-> [i \in 0 .. (n - 1) |->
                      bufs[i \div chunk].data[r * chunk + (i % chunk)]]]

\* all-gather: the first dimension grows by the group size
AllGather(bufs, r, ep) ==
    LET n == Numel(bufs[r])
        shp == bufs[r].shape
    IN  [shape |-> <<ep * shp[1]>> \o Tail(shp),
         data |-> [i \in 0 .. (ep * n - 1) |-> bufs[i \div n].data[i % n]]]

\* reduce-scatter: the inverse of all-gather, summing, then partitioning
ReduceScatter(bufs, r, ep) ==
    LET shp == bufs[r].shape
        n == Numel(bufs[r]) \div ep
    IN  [shape |-> <<shp[1] \div ep>> \o Tail(shp),
         data |-> [i \in 0 .. (n - 1) |->
                      SumTo([s \in 0 .. (ep - 1) |-> bufs[s].data[r * n + i]], ep)]]

\* self.experts(x): shape-preserving; the transform is the expert set's own
experts(kind, x) ==
    [shape |-> x.shape,
     data |-> [i \in DOMAIN x.data |->
                  IF kind = "identity" THEN x.data[i] ELSE 2 * x.data[i]]]

\* A routing of N tokens over E experts with capacity C, as the cells
\* (expert, slot) each token is assigned and the weight of each assignment:
\* route_result_list = <<combine weights (N,E,C), dispatch mask (N,E,C)>>
\* (the TLA+ index is the Python index plus one).
RouteResult(N, E, C, cells, w) ==
    << [shape |-> <<N, E, C>>,
        data |-> [i \in 0 .. (N * E * C - 1) |->
                     IF (i % (E * C)) \in cells[i \div (E * C)]
                     THEN w[i \div (E * C)] ELSE 0]],
       [shape |-> <<N, E, C>>,
        data |-> [i \in 0 .. (N * E * C - 1) |->
                     (i % (E * C)) \in cells[i \div (E * C)]]] >>

\* Top-1 routing: token n goes to expert sel[n]; its slot is the number of
\* earlier tokens sent to the same expert; a token whose slot is not below
\* the capacity is dropped.
Top1Cells(N, C, sel) ==
    [n \in 0 .. (N - 1) |->
        LET slot == Cardinality({m \in 0 .. (n - 1) : sel[m] = sel[n]})
        IN  IF slot < C THEN {sel[n] * C + slot} ELSE {}]

Top1Router(N, E, C) ==
    { RouteResult(N, E, C, Top1Cells(N, C, sel), [n \in 0 .. (N - 1) |-> 1]) :
        sel \in [0 .. (N - 1) -> 0 .. (E - 1)] }

\* Any router honouring the dispatch-mask invariant with top_k = 1: a token
\* holds at most one cell, a cell at most one token.
AnyCells(N, E, C) ==
    { cells \in [0 .. (N - 1) -> {{}} \cup {{x} : x \in 0 .. (E * C - 1)}] :
        \A n, m \in 0 .. (N - 1) : n # m => cells[n] \cap cells[m] = {} }

AnyRouter(N, E, C) ==
    { RouteResult(N, E, C, cells, w) :
        cells \in AnyCells(N, E, C), w \in [0 .. (N - 1) -> Weights] }

router(kind, N, E, C) ==
    IF kind = "Top1Router" THEN Top1Router(N, E, C) ELSE AnyRouter(N, E, C)

\* the auxiliary (load-balancing) loss the router buffers for one routing:
\* positive, growing with the imbalance of the experts' loads
routing_loss(rr) ==
    LET N == rr[2].shape[1]
        E == rr[2].shape[2]
        C == rr[2].shape[3]
        load == [e \in 0 .. (E - 1) |->
                   Cardinality({i \in 0 .. (N * E * C - 1) :
                                  rr[2].data[i] /\ (i % (E * C)) \div C = e})]
    IN  1 + SumTo([e \in 0 .. (E - 1) |-> load[e] * load[e]], E)

\* MoeDispatch (fused kernel): the indexed copy of each token into its cells,
\* as a flat (E*C, D) buffer
MoeDispatch(tokens, mask) ==
    LET N == mask.shape[1]
        EC == mask.shape[2] * mask.shape[3]
        D == tokens.shape[2]
    IN  [shape |-> <<EC, D>>,
         data |-> [i \in 0 .. (EC * D - 1) |->
                      LET holders == {n \in 0 .. (N - 1) :
                                         mask.data[n * EC + (i \div D)]}
                      IN  IF holders = {} THEN 0
                          ELSE tokens.data[(CHOOSE n \in holders : TRUE) * D + (i % D)]]]

\* MoeCombine (fused kernel): each token gathers its cells' rows, weighted
MoeCombine(expert_output, cw, mask) ==
    LET N == mask.shape[1]
        EC == mask.shape[2] * mask.shape[3]
        D == expert_output.shape[2]
    IN  [shape |-> <<N, D>>,
         data |-> [i \in 0 .. (N * D - 1) |->
                      SumTo([x \in 0 .. (EC - 1) |->
                                IF mask.data[(i \div D) * EC + x]
                                THEN cw.data[(i \div D) * EC + x]
                                     * expert_output.data[x * D + (i % D)]
                                ELSE 0], EC)]]

\* ------------------------------------------------------ MoeLayer (the code)
VARIABLES
    layer,        \* the MoeLayer's fields, fixed by __init__
    cap,          \* the capacity C the router works with
    inputs,       \* inputs[r]: the argument of worker r's forward calls
    pc,           \* pc[r]: where worker r stands in forward
    calls,        \* calls[r]: forward calls worker r has ended
    frame,        \* frame[r]: the local variables of worker r's forward call
    router_loss,  \* router_loss[r]: the loss buffered on worker r's router
    coll,         \* the group's two collectives: buffers handed in, who is through
    trace,        \* trace[r]: the steps of worker r's current (or last) call
    outcome,      \* outcome[r]: how worker r's last call ended
    mod           \* the MoeModule under construction (MoeModule.__init__)

vars == <<layer, cap, inputs, pc, calls, frame, router_loss, coll, trace,
          outcome, mod>>

Ranks == 0 .. (layer.ep_size - 1)

\* a local that is not assigned yet: the tensor with no shape, no process
\* name, no loss
NoValue == [shape |-> <<>>, data |-> <<>>]

NoProcess == "None"

NoLoss == 0 - 1

EmptyFrame ==
    [tokens |-> NoValue, route_result_list |-> <<>>, dispatch_data |-> NoValue,
     input_shape |-> <<>>, expert_input |-> NoValue, expert_output |-> NoValue,
     comm_output |-> NoValue, ans |-> NoValue, l_aux |-> NoLoss,
     process |-> NoProcess]

NoCollective == [bufs |-> <<>>, done |-> {}]

\* line 69: tokens = inputs.reshape(-1, self.d_model)
forward_tokens(inp) == reshape(inp, <<-1, d_model>>)

\* the dispatch with the mask reshaped to (E, C, N) instead of permuted
forward_dispatch_reshaped(use_kernel, num_experts, tokens, rr) ==
    IF use_kernel
    THEN reshape(MoeDispatch(tokens, rr[2]), <<num_experts, -1, d_model>>)
    ELSE matmul(reshape(type_as(rr[2]),
                        <<rr[2].shape[2], rr[2].shape[3], rr[2].shape[1]>>),
                tokens)

\* lines 79-84: the dispatch, by the fused kernel or by matmul
forward_dispatch(use_kernel, num_experts, tokens, rr) ==
    IF use_kernel
    THEN reshape(MoeDispatch(tokens, rr[2]), <<num_experts, -1, d_model>>)
    ELSE matmul(permute120(type_as(rr[2])), tokens)

\* the received buffer seen as (num_local_experts, ep_size, C, D)
a2a_expert_input_swapped(x, ep_size, num_local_experts) ==
    reshape(x, <<num_local_experts, ep_size, -1, d_model>>)

\* lines 54-55: the received buffer seen as (ep_size, num_local_experts, C, D)
a2a_expert_input(x, ep_size, num_local_experts) ==
    reshape(x, <<ep_size, num_local_experts, -1, d_model>>)

\* the expert output laid out local expert first, then source worker
a2a_expert_output_swapped(y, input_shape) ==
    LET ep == y.shape[1]
        nle == y.shape[2]
        cd == y.shape[3] * y.shape[4]
    IN  [shape |-> input_shape,
         data |-> [i \in 0 .. (Numel(y) - 1) |->
                      y.data[(((i \div cd) % ep) * nle + (i \div (ep * cd))) * cd
                             + (i % cd)]]]

\* line 57: expert_output.reshape(input_shape)
a2a_expert_output(y, input_shape) == reshape(y, input_shape)

\* the combine weighted by the dispatch mask instead of the combine weights
forward_combine_by_mask(use_kernel, expert_output, rr) ==
    IF use_kernel
    THEN MoeCombine(reshape(expert_output, <<-1, d_model>>), rr[1], rr[2])
    ELSE matmul(reshape(type_as(rr[2]), <<rr[2].shape[1], -1>>),
                reshape(expert_output,
                        <<-1, expert_output.shape[Len(expert_output.shape)]>>))

\* lines 95-102: the combine, by the fused kernel or by matmul
forward_combine(use_kernel, expert_output, rr) ==
    IF use_kernel
    THEN MoeCombine(reshape(expert_output, <<-1, d_model>>), rr[1], rr[2])
    ELSE matmul(reshape(rr[1], <<rr[1].shape[1], -1>>),
                reshape(expert_output,
                        <<-1, expert_output.shape[Len(expert_output.shape)]>>))

\* line 104: ans.reshape(inputs.shape)
forward_ans(ans, inp) == reshape(ans, inp.shape)

\* the selection with tp_process as the default of any other name
comm_process_default(comm_name) ==
    IF comm_name = "all_to_all" THEN "a2a_process" ELSE "tp_process"

\* lines 87-93: the process the communication name selects
comm_process(comm_name) ==
    IF comm_name = "all_to_all" THEN "a2a_process"
    ELSE IF comm_name = "all_gather" THEN "tp_process"
    ELSE "NotImplementedError"

Log(r, step) == trace' = [trace EXCEPT ![r] = Append(@, step)]

\* the caller invokes forward (line 67)
StartCall(r) ==
    /\ pc[r] = "idle" /\ calls[r] < MaxCalls
    /\ pc' = [pc EXCEPT ![r] = "gate"]
    /\ frame' = [frame EXCEPT ![r] = EmptyFrame]
    /\ trace' = [trace EXCEPT ![r] = <<>>]
    /\ outcome' = [outcome EXCEPT ![r] = "running"]
    /\ UNCHANGED <<layer, cap, inputs, calls, router_loss, coll, mod>>

\* lines 69-74: the tokens and the gate projection (the logits; which expert
\* they favour is the router's choice below)
Gate(r) ==
    /\ pc[r] = "gate"
    /\ frame' = [frame EXCEPT ![r].tokens = forward_tokens(inputs[r])]
    /\ Log(r, "gate")
    /\ pc' = [pc EXCEPT ![r] = "route"]
    /\ UNCHANGED <<layer, cap, inputs, calls, router_loss, coll, outcome, mod>>

\* line 77: self.router(...): the route result; the router buffers its loss
Route(r) ==
    /\ pc[r] = "route"
    /\ \E rr \in router(layer.router, frame[r].tokens.shape[1],
                        layer.num_experts, cap) :
          /\ frame' = [frame EXCEPT ![r].route_result_list = rr]
          /\ router_loss' = [router_loss EXCEPT ![r] = @ + routing_loss(rr)]
    /\ Log(r, "route")
    /\ pc' = [pc EXCEPT ![r] = "dispatch"]
    /\ UNCHANGED <<layer, cap, inputs, calls, coll, outcome, mod>>

\* lines 79-84
Dispatch(r) ==
    /\ pc[r] = "dispatch"
    /\ frame' = [frame EXCEPT ![r].dispatch_data =
                    forward_dispatch(layer.use_kernel, layer.num_experts,
                                     frame[r].tokens, frame[r].route_result_list)]
    /\ Log(r, "dispatch")
    /\ pc' = [pc EXCEPT ![r] = "comm"]
    /\ UNCHANGED <<layer, cap, inputs, calls, router_loss, coll, outcome, mod>>

\* lines 91-93: neither communication mode
Raise(r) ==
    /\ pc[r] = "comm"
    /\ comm_process(layer.comm_name) = "NotImplementedError"
    /\ outcome' = [outcome EXCEPT ![r] = "NotImplementedError"]
    /\ pc' = [pc EXCEPT ![r] = "idle"]
    /\ calls' = [calls EXCEPT ![r] = @ + 1]
    /\ frame' = [frame EXCEPT ![r] = EmptyFrame]
    /\ UNCHANGED <<layer, cap, inputs, router_loss, coll, trace, mod>>

\* lines 87-90, then line 53 (a2a_process) or line 62 (tp_process): the
\* worker enters the first collective with its dispatched buffer
EnterOut(r) ==
    /\ pc[r] = "comm"
    /\ comm_process(layer.comm_name) \in {"a2a_process", "tp_process"}
    /\ frame' = [frame EXCEPT ![r].process = comm_process(layer.comm_name)]
    /\ coll' = [coll EXCEPT !.out.bufs = @ @@ (r :> frame[r].dispatch_data)]
    /\ Log(r, "comm_out")
    /\ pc' = [pc EXCEPT ![r] = "wait_out"]
    /\ UNCHANGED <<layer, cap, inputs, calls, router_loss, outcome, mod>>

\* the collective is through for a worker once every worker of the group has
\* entered it; its buffers are released when it is through for all
Through(c, r) ==
    IF c.done \cup {r} = Ranks THEN NoCollective
    ELSE [c EXCEPT !.done = @ \cup {r}]

\* the first collective left without waiting for the group: a buffer no
\* peer has deposited yet is read as the worker's own
LeaveOut_local(r) ==
    LET bufs == [s \in Ranks |->
                    IF s \in DOMAIN coll.out.bufs THEN coll.out.bufs[s]
                    ELSE frame[r].dispatch_data]
    IN  /\ pc[r] = "wait_out"
        /\ frame' = [frame EXCEPT
              ![r].input_shape =
                  IF comm_process(layer.comm_name) = "a2a_process"
                  THEN AllToAll(bufs, r, layer.ep_size).shape ELSE @,
              ![r].expert_input =
                  IF comm_process(layer.comm_name) = "a2a_process"
                  THEN a2a_expert_input(AllToAll(bufs, r, layer.ep_size),
                                        layer.ep_size, layer.num_local_experts)
                  ELSE AllGather(bufs, r, layer.ep_size)]
        /\ coll' = [coll EXCEPT !.out = Through(@, r)]
        /\ pc' = [pc EXCEPT ![r] = "expert"]
        /\ UNCHANGED <<layer, cap, inputs, calls, router_loss, trace, outcome, mod>>

\* lines 53-55 (AllToAll and the reshape) or line 62 (AllGather)
LeaveOut(r) ==
    /\ pc[r] = "wait_out"
    /\ DOMAIN coll.out.bufs = Ranks
    /\ frame' = [frame EXCEPT
          ![r].input_shape =
              IF comm_process(layer.comm_name) = "a2a_process"
              THEN AllToAll(coll.out.bufs, r, layer.ep_size).shape ELSE @,
          ![r].expert_input =
              IF comm_process(layer.comm_name) = "a2a_process"
              THEN a2a_expert_input(AllToAll(coll.out.bufs, r, layer.ep_size),
                                    layer.ep_size, layer.num_local_experts)
              ELSE AllGather(coll.out.bufs, r, layer.ep_size)]
    /\ coll' = [coll EXCEPT !.out = Through(@, r)]
    /\ pc' = [pc EXCEPT ![r] = "expert"]
    /\ UNCHANGED <<layer, cap, inputs, calls, router_loss, trace, outcome, mod>>

\* the expert compute run again on its own output
Expert_twice(r) ==
    /\ pc[r] = "expert"
    /\ frame' = [frame EXCEPT ![r].expert_output =
          IF comm_process(layer.comm_name) = "a2a_process"
          THEN a2a_expert_output(
                   experts(layer.experts,
                           experts(layer.experts, frame[r].expert_input)),
                   frame[r].input_shape)
          ELSE experts(layer.experts, experts(layer.experts, frame[r].expert_input))]
    /\ trace' = [trace EXCEPT ![r] = @ \o <<"expert", "expert">>]
    /\ pc' = [pc EXCEPT ![r] = "comm_in"]
    /\ UNCHANGED <<layer, cap, inputs, calls, router_loss, coll, outcome, mod>>

\* lines 56-57 or line 63: the expert compute
Expert(r) ==
    /\ pc[r] = "expert"
    /\ frame' = [frame EXCEPT ![r].expert_output =
          IF comm_process(layer.comm_name) = "a2a_process"
          THEN a2a_expert_output(experts(layer.experts, frame[r].expert_input),
                                 frame[r].input_shape)
          ELSE experts(layer.experts, frame[r].expert_input)]
    /\ Log(r, "expert")
    /\ pc' = [pc EXCEPT ![r] = "comm_in"]
    /\ UNCHANGED <<layer, cap, inputs, calls, router_loss, coll, outcome, mod>>

\* a2a_process returning the expert output without the second all-to-all
EnterIn_skip(r) ==
    /\ pc[r] = "comm_in"
    /\ IF comm_process(layer.comm_name) = "a2a_process"
       THEN /\ frame' = [frame EXCEPT
                  ![r].comm_output = frame[r].expert_output,
                  ![r].input_shape = <<>>,
                  ![r].expert_input = NoValue,
                  ![r].expert_output = NoValue]
            /\ pc' = [pc EXCEPT ![r] = "combine"]
            /\ UNCHANGED <<coll, trace>>
       ELSE /\ coll' = [coll EXCEPT !.in.bufs = @ @@ (r :> frame[r].expert_output)]
            /\ Log(r, "comm_in")
            /\ pc' = [pc EXCEPT ![r] = "wait_in"]
            /\ UNCHANGED frame
    /\ UNCHANGED <<layer, cap, inputs, calls, router_loss, outcome, mod>>

\* line 58 or line 64: the worker enters the second collective
EnterIn(r) ==
    /\ pc[r] = "comm_in"
    /\ coll' = [coll EXCEPT !.in.bufs = @ @@ (r :> frame[r].expert_output)]
    /\ Log(r, "comm_in")
    /\ pc' = [pc EXCEPT ![r] = "wait_in"]
    /\ UNCHANGED <<layer, cap, inputs, calls, frame, router_loss, outcome, mod>>

\* lines 58-59 (AllToAll) or lines 64-65 (ReduceScatter): the process returns
\* forward's expert_output (comm_output here) and its own locals are gone
LeaveIn(r) ==
    /\ pc[r] = "wait_in"
    /\ DOMAIN coll.in.bufs = Ranks
    /\ frame' = [frame EXCEPT
          ![r].comm_output =
              IF comm_process(layer.comm_name) = "a2a_process"
              THEN AllToAll(coll.in.bufs, r, layer.ep_size)
              ELSE ReduceScatter(coll.in.bufs, r, layer.ep_size),
          ![r].input_shape = <<>>,
          ![r].expert_input = NoValue,
          ![r].expert_output = NoValue]
    /\ coll' = [coll EXCEPT !.in = Through(@, r)]
    /\ pc' = [pc EXCEPT ![r] = "combine"]
    /\ UNCHANGED <<layer, cap, inputs, calls, router_loss, trace, outcome, mod>>

\* lines 95-102
Combine(r) ==
    /\ pc[r] = "combine"
    /\ frame' = [frame EXCEPT ![r].ans =
          forward_combine(layer.use_kernel, frame[r].comm_output,
                          frame[r].route_result_list)]
    /\ Log(r, "combine")
    /\ pc' = [pc EXCEPT ![r] = "reshape"]
    /\ UNCHANGED <<layer, cap, inputs, calls, router_loss, coll, outcome, mod>>

\* line 104
Reshape(r) ==
    /\ pc[r] = "reshape"
    /\ frame' = [frame EXCEPT ![r].ans = forward_ans(@, inputs[r])]
    /\ Log(r, "reshape")
    /\ pc' = [pc EXCEPT ![r] = "pop"]
    /\ UNCHANGED <<layer, cap, inputs, calls, router_loss, coll, outcome, mod>>

\* the loss read without being cleared
Pop_without_clear(r) ==
    /\ pc[r] = "pop"
    /\ frame' = [frame EXCEPT ![r].l_aux = router_loss[r]]
    /\ Log(r, "pop")
    /\ pc' = [pc EXCEPT ![r] = "return"]
    /\ UNCHANGED <<layer, cap, inputs, calls, router_loss, coll, outcome, mod>>

\* line 105: l_aux = self.router.pop_routing_loss(): read and clear
Pop(r) ==
    /\ pc[r] = "pop"
    /\ frame' = [frame EXCEPT ![r].l_aux = router_loss[r]]
    /\ router_loss' = [router_loss EXCEPT ![r] = 0]
    /\ Log(r, "pop")
    /\ pc' = [pc EXCEPT ![r] = "return"]
    /\ UNCHANGED <<layer, cap, inputs, calls, coll, outcome, mod>>

\* line 106: return ans, l_aux; the call's locals are gone
Return(r) ==
    /\ pc[r] = "return"
    /\ outcome' = [outcome EXCEPT ![r] = "returned"]
    /\ pc' = [pc EXCEPT ![r] = "idle"]
    /\ calls' = [calls EXCEPT ![r] = @ + 1]
    /\ frame' = [frame EXCEPT ![r] = EmptyFrame]
    /\ UNCHANGED <<layer, cap, inputs, router_loss, coll, trace, mod>>

\* one step of worker r inside a forward call
Step(r) ==
    \/ Gate(r) \/ Route(r) \/ Dispatch(r) \/ Raise(r) \/ EnterOut(r)
    \/ LeaveOut(r) \/ Expert(r) \/ EnterIn(r) \/ LeaveIn(r) \/ Combine(r)
    \/ Reshape(r) \/ Pop(r) \/ Return(r)

Next ==
    \/ \E r \in Ranks : StartCall(r)
    \/ \E r \in Ranks : Gate(r)
    \/ \E r \in Ranks : Route(r)
    \/ \E r \in Ranks : Dispatch(r)
    \/ \E r \in Ranks : Raise(r)
    \/ \E r \in Ranks : EnterOut(r)
    \/ \E r \in Ranks : LeaveOut(r)
    \/ \E r \in Ranks : Expert(r)
    \/ \E r \in Ranks : EnterIn(r)
    \/ \E r \in Ranks : LeaveIn(r)
    \/ \E r \in Ranks : Combine(r)
    \/ \E r \in Ranks : Reshape(r)
    \/ \E r \in Ranks : Pop(r)
    \/ \E r \in Ranks : Return(r)

\* the layers of the bounded configuration set (MoeLayer.__init__, lines 38-48)
Layers(eps, routers, kinds) ==
    { [d_model |-> d_model, num_experts |-> ep * nle, router |-> ro,
       experts |-> ex, use_kernel |-> uk, ep_size |-> ep,
       num_local_experts |-> nle, comm_name |-> cn] :
        ep \in eps, nle \in LocalExperts, ro \in routers, ex \in kinds,
        uk \in BOOLEAN, cn \in CommNames }

\* the batches of N tokens (as inputs of shape (1, N, D)) over the values vals
Batches(N, vals) ==
    { [shape |-> <<1, N, d_model>>, data |-> d] :
        d \in [0 .. (N * d_model - 1) -> vals] }

NoModule == [pc |-> "unused"]

InitWorkers ==
    /\ cap \in Capacities
    /\ pc = [r \in Ranks |-> "idle"]
    /\ calls = [r \in Ranks |-> 0]
    /\ frame = [r \in Ranks |-> EmptyFrame]
    /\ router_loss = [r \in Ranks |-> 0]
    /\ coll = [out |-> NoCollective, in |-> NoCollective]
    /\ trace = [r \in Ranks |-> <<>>]
    /\ outcome = [r \in Ranks |-> "none"]
    /\ mod = NoModule

\* an expert group of one or two workers with Top-1 routers and identity
\* experts; every token of the group is a different vector
Init ==
    /\ layer \in Layers(EpSizes, {"Top1Router"}, {"identity"})
    /\ \E N \in GroupTokens :
          inputs = [r \in Ranks |->
                      [shape |-> <<1, N, d_model>>,
                       data |-> [i \in 0 .. (N * d_model - 1) |->
                                    r * N * d_model + i + 1]]]
    /\ InitWorkers

Spec == Init /\ [][Next]_vars

\* a single worker with any router, any expert and any batch of up to
\* MaxTokens tokens
InitLocal ==
    /\ layer \in Layers({1}, {"MoeRouter"}, ExpertKinds)
    /\ \E N \in 1 .. MaxTokens : inputs \in [Ranks -> Batches(N, TokenVals)]
    /\ InitWorkers

SpecLocal == InitLocal /\ [][Next]_vars

\* --------------------------------------------- MoeModule.__init__ (the code)
TopKs == {0, 1, 2, 3}
NoisyPolicies == {"None", "Jitter", "Gaussian", "Laplace"}

\* lines 154-161: the noise generator, or the error
noisy_func(noisy_policy) ==
    IF noisy_policy = "None" THEN "None"
    ELSE IF noisy_policy = "Jitter" THEN "UniformNoiseGenerator"
    ELSE IF noisy_policy = "Gaussian" THEN "NormalNoiseGenerator"
    ELSE "NotImplementedError"

\* the router class with Top-2 as the default of any other top_k
moe_router_cls_lenient(top_k) ==
    IF top_k = 1 THEN "Top1Router" ELSE "Top2Router"

\* lines 163-168: the router class, or the error
moe_router_cls(top_k) ==
    IF top_k = 1 THEN "Top1Router"
    ELSE IF top_k = 2 THEN "Top2Router"
    ELSE "NotImplementedError"

\* lines 180-182 and 190-192: expert_cls must be given; the assert raises,
\* and where asserts are compiled out the call of None raises
expert_cls_error(asserts) == IF asserts THEN "AssertionError" ELSE "TypeError"

CtorArgs ==
    [top_k : TopKs, noisy_policy : NoisyPolicies, use_residual : BOOLEAN,
     residual_instance : BOOLEAN, expert_instance : BOOLEAN,
     expert_cls : BOOLEAN, asserts : BOOLEAN]

NewModule(args) ==
    [pc |-> "noisy", args |-> args, noisy_func |-> "None", moe_router |-> "None",
     residual_module |-> "None", my_experts |-> "None", moe_layer |-> "None",
     error |-> "None"]

Fail(err) == mod' = [mod EXCEPT !.pc = "failed", !.error = err]

\* lines 154-161
CtorNoisy ==
    /\ mod.pc = "noisy"
    /\ IF noisy_func(mod.args.noisy_policy) = "NotImplementedError"
       THEN Fail("NotImplementedError")
       ELSE mod' = [mod EXCEPT !.pc = "router",
                               !.noisy_func = noisy_func(mod.args.noisy_policy)]
    /\ UNCHANGED <<layer, cap, inputs, pc, calls, frame, router_loss, coll,
                   trace, outcome>>

\* lines 163-174
CtorRouter ==
    /\ mod.pc = "router"
    /\ IF moe_router_cls(mod.args.top_k) = "NotImplementedError"
       THEN Fail("NotImplementedError")
       ELSE mod' = [mod EXCEPT !.pc = "residual",
                               !.moe_router = moe_router_cls(mod.args.top_k)]
    /\ UNCHANGED <<layer, cap, inputs, pc, calls, frame, router_loss, coll,
                   trace, outcome>>

\* lines 175-185
CtorResidual ==
    /\ mod.pc = "residual"
    /\ IF ~mod.args.use_residual
       THEN mod' = [mod EXCEPT !.pc = "experts"]
       ELSE IF mod.args.residual_instance
       THEN mod' = [mod EXCEPT !.pc = "experts",
                               !.residual_module = "residual_instance"]
       ELSE IF mod.args.expert_cls
       THEN mod' = [mod EXCEPT !.pc = "experts", !.residual_module = "expert_cls"]
       ELSE Fail(expert_cls_error(mod.args.asserts))
    /\ UNCHANGED <<layer, cap, inputs, pc, calls, frame, router_loss, coll,
                   trace, outcome>>

\* lines 187-192
CtorExperts ==
    /\ mod.pc = "experts"
    /\ IF mod.args.expert_instance
       THEN mod' = [mod EXCEPT !.pc = "layer", !.my_experts = "expert_instance"]
       ELSE IF mod.args.expert_cls
       THEN mod' = [mod EXCEPT !.pc = "layer", !.my_experts = "Experts"]
       ELSE Fail(expert_cls_error(mod.args.asserts))
    /\ UNCHANGED <<layer, cap, inputs, pc, calls, frame, router_loss, coll,
                   trace, outcome>>

\* lines 194-197
CtorLayer ==
    /\ mod.pc = "layer"
    /\ mod' = [mod EXCEPT !.pc = "done", !.moe_layer = "MoeLayer"]
    /\ UNCHANGED <<layer, cap, inputs, pc, calls, frame, router_loss, coll,
                   trace, outcome>>

CtorNext ==
    \/ CtorNoisy
    \/ CtorRouter
    \/ CtorResidual
    \/ CtorExperts
    \/ CtorLayer

\* no layer yet: no worker runs forward
CtorInit ==
    /\ mod \in {NewModule(args) : args \in CtorArgs}
    /\ layer = [ep_size |-> 0]
    /\ cap = 0
    /\ inputs = <<>>
    /\ pc = <<>>
    /\ calls = <<>>
    /\ frame = <<>>
    /\ router_loss = <<>>
    /\ coll = [out |-> NoCollective, in |-> NoCollective]
    /\ trace = <<>>
    /\ outcome = <<>>

SpecCtor == CtorInit /\ [][CtorNext]_vars

\* ------------------------------------------------------------------ claims
RECURSIVE Count(_, _)
Count(seq, x) ==
    IF seq = <<>> THEN 0
    ELSE (IF Head(seq) = x THEN 1 ELSE 0) + Count(Tail(seq), x)

IsPrefix(p, q) == Len(p) <= Len(q) /\ SubSeq(q, 1, Len(p)) = p

\* the position of the first x in seq (0: none)
Pos(seq, x) ==
    IF \E i \in 1 .. Len(seq) : seq[i] = x
    THEN CHOOSE i \in 1 .. Len(seq) : seq[i] = x /\ \A j \in 1 .. (i - 1) : seq[j] # x
    ELSE 0

ForwardOrder ==
    <<"gate", "route", "dispatch", "comm_out", "expert", "comm_in", "combine",
      "reshape">>

Supported == layer.comm_name \in {"all_to_all", "all_gather"}

\* worker r's last call has ended
Ended(r) == pc[r] = "idle" /\ calls[r] > 0

\* C3: the steps of a forward call occur in the order gate, route, dispatch,
\* communicate-out, expert compute, communicate-in, combine, reshape: at every
\* moment the steps taken so far are a prefix of that order (followed only by
\* the pop of the loss), and a call that returns has taken each of them once.
C3_StepOrder ==
    \A r \in Ranks :
        /\ IsPrefix(trace[r], ForwardOrder \o <<"pop">>)
        /\ (pc[r] = "return" \/ (Ended(r) /\ outcome[r] = "returned"))
              => /\ SubSeq(trace[r], 1, Len(ForwardOrder)) = ForwardOrder
                 /\ Count(trace[r], "expert") = 1
                 /\ Pos(trace[r], "dispatch") < Pos(trace[r], "comm_out")
                 /\ Pos(trace[r], "comm_out") < Pos(trace[r], "expert")
                 /\ Pos(trace[r], "expert") < Pos(trace[r], "comm_in")
                 /\ Pos(trace[r], "comm_in") < Pos(trace[r], "combine")

C3_Witness ==
    \E r \in Ranks :
        /\ layer.ep_size = 2 /\ Ended(r) /\ outcome[r] = "returned"
        /\ calls[r] = 2 /\ Len(trace[r]) = 9

\* C4 as stated: every forward call that has ended has routed once and popped
\* the loss once, after the routing, and has left no loss on the router.
C4_Original ==
    \A r \in Ranks :
        Ended(r) => /\ Count(trace[r], "route") = 1
                    /\ Count(trace[r], "pop") = 1
                    /\ Pos(trace[r], "route") < Pos(trace[r], "pop")
                    /\ router_loss[r] = 0

\* C4 (amended): every forward call that returns has routed once and popped
\* the loss once, after the routing; the loss it returns is the loss its own
\* routing buffered, and it leaves no loss on the router. A call that ends in
\* NotImplementedError has routed once and not popped: its loss stays on the
\* router.
C4_PopOncePerReturningCall ==
    \A r \in Ranks :
        /\ pc[r] = "return"
              => /\ frame[r].l_aux = routing_loss(frame[r].route_result_list)
                 /\ router_loss[r] = 0
        /\ (pc[r] = "return" \/ (Ended(r) /\ outcome[r] = "returned"))
              => /\ Count(trace[r], "route") = 1
                 /\ Count(trace[r], "pop") = 1
                 /\ Pos(trace[r], "route") < Pos(trace[r], "pop")
                 /\ router_loss[r] = 0
        /\ (Ended(r) /\ outcome[r] = "NotImplementedError")
              => /\ Count(trace[r], "route") = 1
                 /\ Count(trace[r], "pop") = 0
                 /\ router_loss[r] > 0

C4_Witness ==
    \E r \in Ranks :
        /\ Ended(r) /\ outcome[r] = "returned" /\ calls[r] = 2
        /\ router_loss[r] = 0 /\ Count(trace[r], "pop") = 1

\* C5: with a communication name that is neither "all_to_all" nor
\* "all_gather" a forward call ends in NotImplementedError, having entered no
\* collective, run no expert and returned nothing; with one of the two names
\* the process that runs is that name's (a2a_process, tp_process), never the
\* other one, and the call does not raise.
C5_CommSelection ==
    \A r \in Ranks :
        /\ ~Supported
              => /\ pc[r] \in {"idle", "gate", "route", "dispatch", "comm"}
                 /\ Count(trace[r], "comm_out") = 0
                 /\ Count(trace[r], "expert") = 0
                 /\ Count(trace[r], "comm_in") = 0
                 /\ frame[r].process = NoProcess
                 /\ outcome[r] # "returned"
                 /\ coll = [out |-> NoCollective, in |-> NoCollective]
                 /\ Ended(r) => outcome[r] = "NotImplementedError"
                 /\ pc[r] = "comm" => ENABLED Raise(r) /\ ~ENABLED EnterOut(r)
        /\ layer.comm_name = "all_to_all"
              => /\ frame[r].process \in {NoProcess, "a2a_process"}
                 /\ outcome[r] # "NotImplementedError"
                 /\ pc[r] \in {"wait_out", "expert", "comm_in", "wait_in", "combine"}
                       => frame[r].process = "a2a_process"
        /\ layer.comm_name = "all_gather"
              => /\ frame[r].process \in {NoProcess, "tp_process"}
                 /\ outcome[r] # "NotImplementedError"
                 /\ pc[r] \in {"wait_out", "expert", "comm_in", "wait_in", "combine"}
                       => frame[r].process = "tp_process"

C5_Witness ==
    \E r \in Ranks :
        /\ ~Supported /\ Ended(r) /\ outcome[r] = "NotImplementedError"
        /\ trace[r] = <<"gate", "route", "dispatch">>

\* worker s has entered the first (second) collective of its call number k
EnteredOut(s, k) ==
    calls[s] > k \/ (calls[s] = k /\ pc[s] # "idle" /\ Count(trace[s], "comm_out") = 1
                     /\ Count(trace[s], "dispatch") = 1)

EnteredIn(s, k) ==
    calls[s] > k \/ (calls[s] = k /\ pc[s] # "idle" /\ Count(trace[s], "comm_in") = 1
                     /\ Count(trace[s], "expert") = 1)

\* C7: the two collectives are barriers: a worker that is past communicate-out
\* (at its expert compute or later) has every worker of the group in
\* communicate-out of the same call or beyond, with its dispatch done; a
\* worker that is past communicate-in (at combine or later) has every worker
\* in communicate-in of the same call or beyond, with its expert compute done;
\* and a worker inside a call can always take its next step, except while it
\* waits in one of the two collectives.
C7_Barriers ==
    \A r \in Ranks :
        /\ pc[r] \in {"expert", "comm_in", "wait_in", "combine", "reshape", "pop",
                      "return"}
              => \A s \in Ranks : EnteredOut(s, calls[r])
        /\ pc[r] \in {"combine", "reshape", "pop", "return"}
              => \A s \in Ranks : EnteredIn(s, calls[r])
        /\ pc[r] \notin {"idle", "wait_out", "wait_in"} => ENABLED Step(r)
        /\ pc[r] = "wait_out" /\ (\A s \in Ranks : EnteredOut(s, calls[r]))
              => ENABLED Step(r)
        /\ pc[r] = "wait_in" /\ (\A s \in Ranks : EnteredIn(s, calls[r]))
              => ENABLED Step(r)

C7_Witness ==
    /\ layer.ep_size = 2
    /\ pc[0] = "combine" /\ pc[1] = "wait_in" /\ calls[0] = 1 /\ calls[1] = 1

\* C6: constructing a MoeModule fails, building no MoeLayer, exactly when
\* top_k is not 1 or 2, or noisy_policy is an unsupported string, or neither
\* expert_instance nor expert_cls is given, or use_residual is set with
\* neither residual_instance nor expert_cls; otherwise it succeeds, with a
\* Top-1 router exactly when top_k = 1 and a Top-2 router exactly when
\* top_k = 2.
ShouldFail(a) ==
    \/ a.top_k \notin {1, 2}
    \/ a.noisy_policy \notin {"None", "Jitter", "Gaussian"}
    \/ ~a.expert_instance /\ ~a.expert_cls
    \/ a.use_residual /\ ~a.residual_instance /\ ~a.expert_cls

C6_Construction ==
    /\ mod.pc # "done" => mod.moe_layer = "None"
    /\ mod.pc \notin {"done", "failed"} => ENABLED CtorNext
    /\ mod.pc = "failed" => ShouldFail(mod.args) /\ mod.error # "None"
    /\ mod.pc = "done"
          => /\ ~ShouldFail(mod.args)
             /\ mod.moe_layer = "MoeLayer"
             /\ mod.moe_router = "Top1Router" <=> mod.args.top_k = 1
             /\ mod.moe_router = "Top2Router" <=> mod.args.top_k = 2

C6_Witness ==
    /\ mod.pc = "failed" /\ mod.args.top_k = 3 /\ mod.args.noisy_policy = "Jitter"
    /\ mod.args.expert_instance /\ mod.moe_layer = "None"

\* ---------------------------------------------------------- claims on data
\* row i of a 2-d tensor, and the all-zero row of the same width
Row(t, i) == [d \in 0 .. (t.shape[2] - 1) |-> t.data[i * t.shape[2] + d]]

Scaled(w, row) == [d \in DOMAIN row |-> w * row[d]]

ZeroRow(t) == [d \in 0 .. (t.shape[2] - 1) |-> 0]

\* entry [e, c, :] of a 3-d buffer and entry [s, l, c, :] of a 4-d one, by
\* the strides of the tensor's own shape
At3(t, e, c) ==
    [d \in 0 .. (t.shape[3] - 1) |-> t.data[(e * t.shape[2] + c) * t.shape[3] + d]]

At4(t, s, l, c) ==
    [d \in 0 .. (t.shape[4] - 1) |->
        t.data[((s * t.shape[2] + l) * t.shape[3] + c) * t.shape[4] + d]]

\* the cells (e, c) token n holds in a dispatch mask, and its weight there
CellsOf(mask, n) ==
    { x \in (0 .. (mask.shape[2] - 1)) \X (0 .. (mask.shape[3] - 1)) :
        mask.data[(n * mask.shape[2] + x[1]) * mask.shape[3] + x[2]] }

WeightAt(cw, n, x) == cw.data[(n * cw.shape[2] + x[1]) * cw.shape[3] + x[2]]

TokensOf(rr) == 0 .. (rr[2].shape[1] - 1)

\* top_k = 1 without overflow: every token holds exactly one cell and no two
\* tokens hold the same cell
OneCellEach(rr) ==
    /\ \A n \in TokensOf(rr) : Cardinality(CellsOf(rr[2], n)) = 1
    /\ \A n, m \in TokensOf(rr) :
          n # m => CellsOf(rr[2], n) \cap CellsOf(rr[2], m) = {}

TheWeight(rr, n) == WeightAt(rr[1], n, CHOOSE x \in CellsOf(rr[2], n) : TRUE)

\* a dropped token: its mask row and its weight row are all zero
Dropped(rr, n) ==
    /\ CellsOf(rr[2], n) = {}
    /\ \A x \in (0 .. (rr[1].shape[2] - 1)) \X (0 .. (rr[1].shape[3] - 1)) :
          WeightAt(rr[1], n, x) = 0

\* the batch and the route result without token n
WithoutToken(t, n) ==
    LET w == Numel(t) \div t.shape[1]
    IN  [shape |-> <<t.shape[1] - 1>> \o Tail(t.shape),
         data |-> [i \in 0 .. (Numel(t) - w - 1) |->
                      IF i < n * w THEN t.data[i] ELSE t.data[i + w]]]

MatmulPath(r) ==
    /\ pc[r] = "return" /\ ~layer.use_kernel /\ Supported

\* C1: on the matmul path with a group of one worker and an identity expert,
\* when every token holds exactly one cell and no cell is shared, output row
\* n is the token's combine weight times token n, in the shape of the input;
\* with all weights 1 the output is the input.
C1_TokenConservation ==
    \A r \in Ranks :
        LET rr == frame[r].route_result_list
            tok == reshape(inputs[r], <<-1, d_model>>)
            out == reshape(frame[r].ans, <<-1, d_model>>)
        IN  (MatmulPath(r) /\ layer.ep_size = 1 /\ layer.experts = "identity"
             /\ OneCellEach(rr))
               => /\ frame[r].ans.shape = inputs[r].shape
                  /\ \A n \in TokensOf(rr) :
                        Row(out, n) = Scaled(TheWeight(rr, n), Row(tok, n))
                  /\ (\A n \in TokensOf(rr) : TheWeight(rr, n) = 1)
                        => frame[r].ans = inputs[r]

C1_Witness ==
    \E r \in Ranks :
        LET rr == frame[r].route_result_list
        IN  /\ MatmulPath(r) /\ layer.ep_size = 1 /\ layer.experts = "identity"
            /\ layer.num_experts = 2 /\ cap = 2
            /\ OneCellEach(rr) /\ Cardinality(TokensOf(rr)) = 2
            /\ TheWeight(rr, 0) = 2 /\ TheWeight(rr, 1) = 1
            /\ CellsOf(rr[2], 0) = {<<1, 0>>} /\ CellsOf(rr[2], 1) = {<<0, 1>>}
            /\ inputs[r].data[0] = 1 /\ inputs[r].data[d_model] = 2
            /\ frame[r].ans.data[0] = 2

\* C8: on the matmul path a dropped token holds no cell of the dispatched
\* buffer and gets an all-zero output row: the buffer is the one dispatched
\* for the batch without it, every kept token's cell holds that token, every
\* cell no token holds is zero, and the output rows of the other tokens are
\* those combined for the batch without it.
C8_DroppedToken ==
    \A r \in Ranks :
        LET rr == frame[r].route_result_list
            tok == frame[r].tokens
            buf == frame[r].dispatch_data
            out == reshape(frame[r].ans, <<-1, d_model>>)
        IN  MatmulPath(r)
               => /\ \A e \in 0 .. (buf.shape[1] - 1), c \in 0 .. (buf.shape[2] - 1) :
                        /\ (\A n \in TokensOf(rr) : <<e, c>> \notin CellsOf(rr[2], n))
                              => At3(buf, e, c) = ZeroRow(tok)
                        /\ \A n \in TokensOf(rr) :
                              CellsOf(rr[2], n) = {<<e, c>>}
                                 => At3(buf, e, c) = Row(tok, n)
                  /\ \A n \in TokensOf(rr) :
                        Dropped(rr, n)
                           => LET rr1 == <<WithoutToken(rr[1], n), WithoutToken(rr[2], n)>>
                                  out1 == forward_combine(FALSE, frame[r].comm_output, rr1)
                              IN  /\ Row(out, n) = ZeroRow(tok)
                                  /\ buf = forward_dispatch(FALSE, layer.num_experts,
                                                            WithoutToken(tok, n), rr1)
                                  /\ \A m \in TokensOf(rr) \ {n} :
                                        Row(out, m)
                                          = Row(out1, IF m < n THEN m ELSE m - 1)

C8_Witness ==
    \E r \in Ranks :
        LET rr == frame[r].route_result_list
        IN  /\ MatmulPath(r) /\ Cardinality(TokensOf(rr)) = 2
            /\ Dropped(rr, 0) /\ CellsOf(rr[2], 1) = {<<1, 0>>}
            /\ layer.num_experts = 2
            /\ inputs[r].data[0] = 2 /\ inputs[r].data[d_model] = 1
            /\ frame[r].ans.data[0] = 0 /\ frame[r].ans.data[d_model] # 0

\* C2: on the all-to-all path with identity experts, the buffer a2a_process
\* returns to a worker is the dispatched buffer that worker passed in, cell
\* for cell.
C2_A2ARoundTrip ==
    \A r \in Ranks :
        (pc[r] = "combine" /\ layer.comm_name = "all_to_all"
         /\ layer.experts = "identity")
           => frame[r].comm_output = frame[r].dispatch_data

C2_Witness ==
    /\ layer.ep_size = 2 /\ layer.num_local_experts = 2
    /\ layer.comm_name = "all_to_all" /\ layer.experts = "identity"
    /\ pc[0] = "combine" /\ pc[1] = "combine"
    /\ frame[0].comm_output = frame[0].dispatch_data
    /\ frame[0].dispatch_data # frame[1].dispatch_data
    /\ \E i \in DOMAIN frame[0].dispatch_data.data :
          \E j \in DOMAIN frame[0].dispatch_data.data :
              /\ i \div (cap * d_model) = 1 /\ j \div (cap * d_model) = 2
              /\ frame[0].dispatch_data.data[i] # 0
              /\ frame[0].dispatch_data.data[j] # 0

\* the rows of tokens that worker s's routing sent to expert e
RoutedTo(s, e) ==
    { Row(frame[s].tokens, n) :
        n \in { m \in TokensOf(frame[s].route_result_list) :
                  \E x \in CellsOf(frame[s].route_result_list[2], m) : x[1] = e } }

\* C9: after the first all-to-all and the reshape, worker r holds a buffer of
\* shape (ep_size, num_local_experts, C, D) with as many elements as it
\* dispatched, whose entry [s, l, c] is the row worker s dispatched to cell
\* [r * num_local_experts + l, c]; so what local expert l of worker r
\* receives are the tokens the workers routed to expert
\* r * num_local_experts + l, and nothing else but zero padding.
C9_A2ALayout ==
    \A r \in Ranks :
        (pc[r] = "expert" /\ layer.comm_name = "all_to_all")
           => LET x == frame[r].expert_input
                  nle == layer.num_local_experts
              IN  /\ x.shape = <<layer.ep_size, nle, cap, d_model>>
                  /\ Numel(x) = Numel(frame[r].dispatch_data)
                  /\ DOMAIN x.data = 0 .. (Numel(x) - 1)
                  /\ \A s \in Ranks, l \in 0 .. (nle - 1), c \in 0 .. (cap - 1) :
                        At4(x, s, l, c) = At3(frame[s].dispatch_data, r * nle + l, c)
                  /\ \A l \in 0 .. (nle - 1) :
                        { At4(x, s, l, c) : s \in Ranks, c \in 0 .. (cap - 1) }
                            \ {[d \in 0 .. (d_model - 1) |-> 0]}
                          = UNION { RoutedTo(s, r * nle + l) : s \in Ranks }

C9_Witness ==
    /\ layer.ep_size = 2 /\ layer.num_local_experts = 2 /\ cap = 2
    /\ layer.comm_name = "all_to_all" /\ pc[1] = "expert"
    /\ Cardinality(RoutedTo(0, 3)) = 2 /\ Cardinality(RoutedTo(1, 2)) = 1
    /\ Cardinality(RoutedTo(1, 3)) = 1
    /\ At4(frame[1].expert_input, 0, 1, 1) = Row(frame[0].tokens, 1)
    /\ At4(frame[1].expert_input, 1, 0, 0) # At4(frame[1].expert_input, 1, 1, 0)

\* ------------------------------------------------------ claims on progress
AllRanks == UNION { 0 .. (e - 1) : e \in EpSizes }

\* the scheduler runs every worker that can take a step inside a call; when
\* a caller starts a call is the caller's business
FairStep(r) == r \in Ranks /\ Step(r)

\* synchronisation does not depend on the data: the groups of the fair
\* specification route one token per worker, with capacity 1
FairInit ==
    /\ layer \in Layers(EpSizes, {"Top1Router"}, {"identity"})
    /\ inputs = [r \in Ranks |->
                   [shape |-> <<1, 1, d_model>>,
                    data |-> [i \in 0 .. (d_model - 1) |-> r * d_model + i + 1]]]
    /\ InitWorkers
    /\ cap = 1

FairSpec == FairInit /\ [][Next]_vars /\ \A r \in AllRanks : WF_vars(FairStep(r))

IsCollective(step) == step \in {"comm_out", "comm_in"}

\* worker s has started its call number k
Started(s, k) == calls[s] > k \/ (calls[s] = k /\ pc[s] # "idle")

AllStarted(r, k) ==
    r \in Ranks /\ Supported /\ \A s \in Ranks : Started(s, k)

\* a call with a supported mode never raises, so its end is its return
TwoCollectives ==
    \A r \in Ranks :
        /\ IsPrefix(SelectSeq(trace[r], IsCollective), <<"comm_out", "comm_in">>)
        /\ pc[r] \in {"combine", "reshape", "pop", "return"}
              => SelectSeq(trace[r], IsCollective) = <<"comm_out", "comm_in">>
        /\ Supported /\ Ended(r)
              => /\ outcome[r] = "returned"
                 /\ SelectSeq(trace[r], IsCollective) = <<"comm_out", "comm_in">>

====
